---- MODULE Spec2Model ----
(***************************************************************************)
(* Model of Crypto.sign / Crypto.verify (compact JWS signing rooted in     *)
(* DIDs) of packages/http-server/src/request-handlers/submit-close.ts.     *)
(*                                                                         *)
(* A JavaScript string is a sequence of symbols (integers).  Punctuation   *)
(* the code splits or joins on ('.', '#', ':') and the JSON punctuation    *)
(* are single symbols carrying their ASCII code; a label the code never    *)
(* looks inside (ES256K, secp256k1, alg, kid, ...) is one symbol.  A byte  *)
(* string is a sequence of integers as well.                               *)
(***************************************************************************)
EXTENDS Integers, Sequences, FiniteSets, TLC

VARIABLES
    algorithms,   \* Crypto.algorithms, the static registry
    resolver,     \* what deferenceDidUrl currently answers for a known kid
    calls,        \* the sign / verify calls in flight, one record per call slot
    wire,         \* the last compact JWS a sign call returned, with its provenance
    digestLog,    \* the Crypto.digest calls made so far: payload and bytes returned
    options,      \* the opts the request handlers were made with
    requests      \* the HTTP requests the request handlers are serving

vars == <<algorithms, resolver, calls, wire, digestLog, options, requests>>

----------------------------------------------------------------------------
(* Bounds *)

MaxPayloadLen == 1      \* payloads are byte strings of at most this length
MaxFixedLen   == 4      \* length of the strings verify is given that no sign call made
NumCalls      == 2      \* call slots of the concurrent specification
MaxMembers    == 2      \* members of the JSON objects digest is given
NumRequests   == 2      \* HTTP requests a request handler serves at a time

----------------------------------------------------------------------------
(* Symbols *)

Dot      == 46          \* '.'
Hash     == 35          \* '#'
Colon    == 58          \* ':'
Quote    == 34          \* '"'
LBrace   == 123         \* '{'
RBrace   == 125         \* '}'
Comma    == 44          \* ','

SymES256K     == 3      \* the label ES256K
SymEdDSA      == 4      \* the label EdDSA
SymSecp256k1  == 6      \* the label secp256k1
SymEd25519    == 7      \* the label Ed25519
SymUndefined  == 9      \* the text `undefined` a template literal prints
SymAlg        == 10     \* the property name alg
SymKid        == 11     \* the property name kid
SymDidA       == 12     \* a DID, did:example:a
SymDidB       == 13     \* another DID, did:example:b
SymFrag       == 14     \* a fragment, key-1
SymBearer     == 20     \* the text 'Bearer '
SymTokenA     == 21     \* a token
SymTokenB     == 22     \* another token
SymBasic      == 23     \* a text that is no 'Bearer ', such as 'Basic '

Digit0   == 48          \* '0'
B64Base  == 1000        \* offset of the base64url alphabet
ShaBase  == 3000        \* offset of the bytes of a SHA-256 hash
MacBase  == 500         \* offset of the signature tags

EmptyString == <<>>
Undefined   == <<-1>>   \* the JavaScript value undefined
ObjectValue == <<-2>>   \* a JSON value that is not a string

ES256K    == <<SymES256K>>
EdDSA     == <<SymEdDSA>>
secp256k1 == <<SymSecp256k1>>
Ed25519   == <<SymEd25519>>

----------------------------------------------------------------------------
(* String helpers *)

\* `${x}` in a template literal
Interpolate(x) == IF x = Undefined THEN <<SymUndefined>> ELSE x

\* x || ''
OrEmpty(x) == IF x = Undefined \/ x = EmptyString THEN EmptyString ELSE x

\* !x for a value that is a string or undefined
Falsy(x) == x = Undefined \/ x = EmptyString

\* index of the first occurrence of sep in s, 0 when there is none
RECURSIVE IndexOf(_, _, _)
IndexOf(s, sep, i) ==
    IF i > Len(s) THEN 0
    ELSE IF s[i] = sep THEN i
    ELSE IndexOf(s, sep, i + 1)

\* String.prototype.split with a one-character separator
RECURSIVE Split(_, _)
Split(s, sep) ==
    LET i == IndexOf(s, sep, 1) IN
    IF i = 0 THEN <<s>>
    ELSE <<SubSeq(s, 1, i - 1)>> \o Split(SubSeq(s, i + 1, Len(s)), sep)

----------------------------------------------------------------------------
(* Convert (@web5/common) *)

\* Convert.string(s).toUint8Array(): the UTF-8 bytes of an ASCII string are
\* the codes of its characters
StringToBytes(s) == s

\* Convert.uint8Array(bytes).toBase64Url(): an injective re-coding of the bytes
\* into an alphabet without '.'; the empty byte string gives the empty string
ToBase64Url(bytes) == [i \in 1..Len(bytes) |-> bytes[i] + B64Base]

IsBase64Url(s) == \A i \in 1..Len(s) : s[i] >= B64Base

\* Convert.base64Url(s).toUint8Array(): throws on a character outside the
\* alphabet
FromBase64Url(s) ==
    IF IsBase64Url(s)
    THEN [ok |-> TRUE, bytes |-> [i \in 1..Len(s) |-> s[i] - B64Base]]
    ELSE [ok |-> FALSE, bytes |-> <<>>]

\* JSON.stringify of a JWS header {alg, kid}; a property whose value is
\* undefined is left out
JsonStringify(h) ==
    LET member(name, v) == <<Quote, name, Quote, Colon, Quote>> \o v \o <<Quote>>
        a == IF h.alg = Undefined THEN <<>> ELSE member(SymAlg, h.alg)
        k == IF h.kid = Undefined THEN <<>> ELSE member(SymKid, h.kid)
        sep == IF a # <<>> /\ k # <<>> THEN <<Comma>> ELSE <<>>
    IN  <<LBrace>> \o a \o sep \o k \o <<RBrace>>

\* Convert.object(h).toBase64Url()
ObjectToBase64Url(h) == ToBase64Url(StringToBytes(JsonStringify(h)))

NoParse == [ok |-> FALSE, next |-> 0, val |-> Undefined,
            alg |-> Undefined, kid |-> Undefined]

\* a JSON string literal starting at t[i]
ParseString(t, i) ==
    IF i > Len(t) \/ t[i] # Quote THEN NoParse
    ELSE LET j == IndexOf(t, Quote, i + 1) IN
         IF j = 0 THEN NoParse
         ELSE [ok |-> TRUE, next |-> j + 1, val |-> SubSeq(t, i + 1, j - 1),
               alg |-> Undefined, kid |-> Undefined]

RECURSIVE ParseValue(_, _)
RECURSIVE ParseMembers(_, _, _, _)

\* the members of a JSON object, the first of them starting at t[i]; of a
\* repeated property name the last value stands
ParseMembers(t, i, alg, kid) ==
    LET k == ParseString(t, i) IN
    IF ~k.ok THEN NoParse
    ELSE IF k.next > Len(t) \/ t[k.next] # Colon THEN NoParse
    ELSE LET v == ParseValue(t, k.next + 1) IN
         IF ~v.ok \/ v.next > Len(t) THEN NoParse
         ELSE LET alg2 == IF k.val = <<SymAlg>> THEN v.val ELSE alg
                  kid2 == IF k.val = <<SymKid>> THEN v.val ELSE kid
              IN  IF t[v.next] = Comma
                  THEN ParseMembers(t, v.next + 1, alg2, kid2)
                  ELSE IF t[v.next] = RBrace
                  THEN [ok |-> TRUE, next |-> v.next + 1, val |-> ObjectValue,
                        alg |-> alg2, kid |-> kid2]
                  ELSE NoParse

\* a JSON value starting at t[i]: a string or an object (the alphabet has no
\* digits, brackets or literals)
ParseValue(t, i) ==
    IF i > Len(t) THEN NoParse
    ELSE IF t[i] = Quote THEN ParseString(t, i)
    ELSE IF t[i] = LBrace
    THEN IF i + 1 <= Len(t) /\ t[i + 1] = RBrace
         THEN [ok |-> TRUE, next |-> i + 2, val |-> ObjectValue,
               alg |-> Undefined, kid |-> Undefined]
         ELSE ParseMembers(t, i + 1, Undefined, Undefined)
    ELSE NoParse

\* JSON.parse: the whole text must be one value; throws SyntaxError otherwise
JsonParse(t) ==
    LET v == ParseValue(t, 1) IN
    IF v.ok /\ v.next = Len(t) + 1
    THEN [ok |-> TRUE, alg |-> v.alg, kid |-> v.kid]
    ELSE [ok |-> FALSE, alg |-> Undefined, kid |-> Undefined]

\* Convert.base64Url(s).toObject()
Base64UrlToObject(s) ==
    LET b == FromBase64Url(s) IN
    IF b.ok THEN JsonParse(b.bytes)
    ELSE [ok |-> FALSE, alg |-> Undefined, kid |-> Undefined]

----------------------------------------------------------------------------
(* The algorithm registry *)

secp256k1Signer ==
    [signer |-> "EcdsaAlgorithm", options |-> "ECDSA/SHA-256",
     alg |-> ES256K, crv |-> secp256k1]

ed25519Signer ==
    [signer |-> "EdDsaAlgorithm", options |-> "EdDSA",
     alg |-> EdDSA, crv |-> Ed25519]

\* `${alg}:${crv}`
AlgorithmId(alg, crv) == Interpolate(alg) \o <<Colon>> \o Interpolate(crv)

\* the value of the static field Crypto.algorithms
InitialAlgorithms ==
    (AlgorithmId(ES256K, EmptyString)      :> secp256k1Signer) @@
    (AlgorithmId(ES256K, secp256k1)        :> secp256k1Signer) @@
    (AlgorithmId(EmptyString, secp256k1)   :> secp256k1Signer) @@
    (AlgorithmId(EdDSA, Ed25519)           :> ed25519Signer)

\* what indexing the registry with an absent key gives: undefined
NotFound ==
    [signer |-> "undefined", options |-> "undefined",
     alg |-> Undefined, crv |-> Undefined]

\* this.algorithms[algorithmId]
Lookup(reg, id) == IF id \in DOMAIN reg THEN reg[id] ELSE NotFound

----------------------------------------------------------------------------
(* Jose.jwkToCryptoKey and the signers of @web5/crypto.  Key material is a  *)
(* positive integer, the same for the private and the public half of a     *)
(* pair; material 0 is malformed.  A signature is unforgeable and sound:   *)
(* its bytes determine the scheme, the key and the signed data.            *)

\* Jose.jwkToCryptoKey: throws on malformed key material
JwkToCryptoKey(jwk) ==
    IF jwk.mat > 0 THEN [ok |-> TRUE, key |-> jwk.mat]
    ELSE [ok |-> FALSE, key |-> 0]

SchemeOf(signer) == IF signer = "EcdsaAlgorithm" THEN 1 ELSE 2

\* the part of a signature only the holder of the private key can compute
Mac(signer, key) == MacBase + 10 * SchemeOf(signer) + key

\* algorithm.signer.sign({ key, data, algorithm })
SignerSign(signer, key, data) == <<Mac(signer, key)>> \o data

\* signer.verify({ algorithm, key, data, signature })
SignerVerify(signer, key, data, signature) ==
    /\ Len(signature) >= 1
    /\ signature[1] = Mac(signer, key)
    /\ SubSeq(signature, 2, Len(signature)) = data

----------------------------------------------------------------------------
(* Calls *)

Procs == 1..NumCalls

NoJwk    == [alg |-> Undefined, crv |-> Undefined, mat |-> 0]
NoKey    == [ok |-> FALSE, key |-> 0]
NoResult == [kind |-> "none", val |-> EmptyString]
NoHeader == [ok |-> FALSE, alg |-> Undefined, kid |-> Undefined]

\* answers of deferenceDidUrl: it throws, it returns something that is not a
\* verification method, or it returns one, with or without publicKeyJwk
Throws    == [kind |-> "throws", hasJwk |-> FALSE, crv |-> Undefined, mat |-> 0]
NotVM     == [kind |-> "notVM",  hasJwk |-> FALSE, crv |-> Undefined, mat |-> 0]
VMNoJwk   == [kind |-> "vm",     hasJwk |-> FALSE, crv |-> Undefined, mat |-> 0]
VM(crv, mat) == [kind |-> "vm",  hasJwk |-> TRUE,  crv |-> crv, mat |-> mat]

NoWire ==
    [sig |-> EmptyString, payload |-> EmptyString, jwk |-> NoJwk,
     kid |-> EmptyString, detached |-> FALSE]

\* a call slot with no call in it
IdleCall ==
    [op |-> "none", pc |-> "idle",
     \* the options of the call
     payload |-> Undefined, jwk |-> NoJwk, kid |-> EmptyString,
     detached |-> FALSE, signature |-> EmptyString,
     \* its local variables
     header |-> EmptyString, payloadSeg |-> EmptyString, sigSeg |-> EmptyString,
     jwsHeader |-> NoHeader, algorithm |-> NotFound, vm |-> Throws,
     key |-> NoKey,
     \* what it returned or threw, and the collaborators it invoked
     result |-> NoResult, trace |-> <<>>,
     \* provenance of the signature a verify call was given
     src |-> NoWire]

Throw(call, kind, val) ==
    [call EXCEPT !.pc = "done", !.result = [kind |-> kind, val |-> val]]

Return(call, val) ==
    [call EXCEPT !.pc = "done", !.result = [kind |-> "ok", val |-> val]]

Invoke(call, name) == [call EXCEPT !.trace = Append(@, name)]

----------------------------------------------------------------------------
(* Crypto.sign, one operator per stretch of code between two awaits *)

SignAlgorithmId_Interpolated(jwk) == AlgorithmId(jwk.alg, jwk.crv)

\* the registry key sign computes from the private key
SignAlgorithmId(jwk) ==
    LET algorithmName == OrEmpty(jwk.alg)
        namedCurve    == OrEmpty(jwk.crv)
    IN  AlgorithmId(algorithmName, namedCurve)

\* as SignStep1, but the header carries the alg the key declares
SignStep1_DeclaredAlg(reg, jwk, kid, payload, detached) ==
    LET call == [IdleCall EXCEPT !.op = "sign", !.jwk = jwk, !.kid = kid,
                                 !.payload = payload, !.detached = detached]
        algorithmId   == SignAlgorithmId(jwk)
        algorithm     == Lookup(reg, algorithmId)
    IN  IF algorithm = NotFound
        THEN Throw(call, "UnsupportedAlgorithm", algorithmId)
        ELSE LET jwsHeader == [alg |-> OrEmpty(jwk.alg), kid |-> kid] IN
             Invoke([call EXCEPT !.algorithm = algorithm,
                                 !.header = ObjectToBase64Url(jwsHeader),
                                 !.payloadSeg = ToBase64Url(payload),
                                 !.pc = "convert"],
                    "jwkToCryptoKey")

\* from the entry to the call of Jose.jwkToCryptoKey
SignStep1(reg, jwk, kid, payload, detached) ==
    LET call == [IdleCall EXCEPT !.op = "sign", !.jwk = jwk, !.kid = kid,
                                 !.payload = payload, !.detached = detached]
        algorithmId   == SignAlgorithmId(jwk)
        algorithm     == Lookup(reg, algorithmId)
    IN  IF algorithm = NotFound
        THEN Throw(call, "UnsupportedAlgorithm", algorithmId)
        ELSE LET jwsHeader == [alg |-> algorithm.alg, kid |-> kid] IN
             Invoke([call EXCEPT !.algorithm = algorithm,
                                 !.header = ObjectToBase64Url(jwsHeader),
                                 !.payloadSeg = ToBase64Url(payload),
                                 !.pc = "convert"],
                    "jwkToCryptoKey")

\* from the key handle to the call of algorithm.signer.sign
SignStep2(call) ==
    LET key == JwkToCryptoKey(call.jwk) IN
    IF ~key.ok
    THEN Throw(call, "KeyConversionFailure", EmptyString)
    ELSE Invoke([call EXCEPT !.key = key, !.pc = "signing"], "signer.sign")

CompactJws_AlwaysAttached(header, payloadSeg, sigSeg, detached) ==
    header \o <<Dot>> \o payloadSeg \o <<Dot>> \o sigSeg

\* the compact JWS sign returns
CompactJws(header, payloadSeg, sigSeg, detached) ==
    IF detached
    THEN header \o <<Dot, Dot>> \o sigSeg
    ELSE header \o <<Dot>> \o payloadSeg \o <<Dot>> \o sigSeg

\* from the signature bytes to the return
SignStep3(call) ==
    LET toSign         == call.header \o <<Dot>> \o call.payloadSeg
        toSignBytes    == StringToBytes(toSign)
        signatureBytes == SignerSign(call.algorithm.signer, call.key.key, toSignBytes)
        base64UrlEncodedSignature == ToBase64Url(signatureBytes)
    IN  Return([call EXCEPT !.sigSeg = base64UrlEncodedSignature],
               CompactJws(call.header, call.payloadSeg,
                          base64UrlEncodedSignature, call.detached))

----------------------------------------------------------------------------
(* Crypto.verify, one operator per stretch of code between two awaits *)

WrongSegmentCount_AtLeastThree(splitJws) == Len(splitJws) < 3

\* splitJws.length !== 3
WrongSegmentCount(splitJws) == Len(splitJws) # 3

EffectivePayload_Embedded(embedded, detachedPayload) == embedded

\* the payload segment the signed data is rebuilt from
EffectivePayload(embedded, detachedPayload) ==
    IF detachedPayload # Undefined
    THEN ToBase64Url(detachedPayload)
    ELSE embedded

\* from the entry to the call of deferenceDidUrl
VerifyStep1(signature, detachedPayload, src) ==
    LET call == [IdleCall EXCEPT !.op = "verify", !.signature = signature,
                                 !.payload = detachedPayload, !.src = src]
        splitJws == Split(signature, Dot)
    IN  IF signature = EmptyString
        THEN Throw(call, "MissingSignature", EmptyString)
        ELSE IF WrongSegmentCount(splitJws)
        THEN Throw(call, "MalformedSignature", EmptyString)
        ELSE IF detachedPayload # Undefined /\ Len(splitJws[2]) # 0
        THEN Throw(call, "MalformedSignature", EmptyString)
        ELSE
        LET base64urlEncodedJwsPayload ==
                EffectivePayload(splitJws[2], detachedPayload)
            jwsHeader == Base64UrlToObject(splitJws[1])
            parsed == [call EXCEPT !.header = splitJws[1],
                                   !.payloadSeg = base64urlEncodedJwsPayload,
                                   !.sigSeg = splitJws[3],
                                   !.jwsHeader = jwsHeader]
        IN  IF ~jwsHeader.ok
            THEN Throw(parsed, "SyntaxError", EmptyString)
            ELSE IF Falsy(jwsHeader.alg) \/ Falsy(jwsHeader.kid)
            THEN Throw(parsed, "MalformedHeader", EmptyString)
            ELSE Invoke([parsed EXCEPT !.pc = "resolving"], "deferenceDidUrl")

\* as VerifyStep2, but a verification method without publicKeyJwk is let
\* through
VerifyStep2_KeyOptional(reg, call, verificationMethod) ==
    LET resolved == [call EXCEPT !.vm = verificationMethod] IN
    IF verificationMethod.kind = "throws"
    THEN Throw(resolved, "KeyResolutionFailure", EmptyString)
    ELSE IF verificationMethod.kind # "vm"
    THEN Throw(resolved, "NotVerificationMethod", EmptyString)
    ELSE
    LET signatureBytes == FromBase64Url(call.sigSeg)
        algorithmId == AlgorithmId(call.jwsHeader.alg, verificationMethod.crv)
        algorithm   == Lookup(reg, algorithmId)
    IN  IF ~signatureBytes.ok
        THEN Throw(resolved, "SyntaxError", EmptyString)
        ELSE IF algorithm = NotFound
        THEN Throw(resolved, "TypeError", algorithmId)
        ELSE Invoke([resolved EXCEPT !.algorithm = algorithm, !.pc = "convert"],
                    "jwkToCryptoKey")

\* as VerifyStep2, but the registry is looked up before the public key is
\* required
VerifyStep2_LookupFirst(reg, call, verificationMethod) ==
    LET resolved == [call EXCEPT !.vm = verificationMethod] IN
    IF verificationMethod.kind = "throws"
    THEN Throw(resolved, "KeyResolutionFailure", EmptyString)
    ELSE IF verificationMethod.kind # "vm"
    THEN Throw(resolved, "NotVerificationMethod", EmptyString)
    ELSE
    LET signatureBytes == FromBase64Url(call.sigSeg)
        algorithmId == AlgorithmId(call.jwsHeader.alg, verificationMethod.crv)
        algorithm   == Lookup(reg, algorithmId)
    IN  IF algorithm = NotFound
        THEN Throw(resolved, "TypeError", algorithmId)
        ELSE IF ~verificationMethod.hasJwk
        THEN Throw(resolved, "UnresolvableKey", EmptyString)
        ELSE IF ~signatureBytes.ok
        THEN Throw(resolved, "SyntaxError", EmptyString)
        ELSE Invoke([resolved EXCEPT !.algorithm = algorithm, !.pc = "convert"],
                    "jwkToCryptoKey")

\* from the verification method to the call of Jose.jwkToCryptoKey
VerifyStep2(reg, call, verificationMethod) ==
    LET resolved == [call EXCEPT !.vm = verificationMethod] IN
    IF verificationMethod.kind = "throws"
    THEN Throw(resolved, "KeyResolutionFailure", EmptyString)
    ELSE IF verificationMethod.kind # "vm"
    THEN Throw(resolved, "NotVerificationMethod", EmptyString)
    ELSE IF ~verificationMethod.hasJwk
    THEN Throw(resolved, "UnresolvableKey", EmptyString)
    ELSE
    LET signatureBytes == FromBase64Url(call.sigSeg)
        algorithmId == AlgorithmId(call.jwsHeader.alg, verificationMethod.crv)
        algorithm   == Lookup(reg, algorithmId)
    IN  IF ~signatureBytes.ok
        THEN Throw(resolved, "SyntaxError", EmptyString)
        ELSE IF algorithm = NotFound
        THEN Throw(resolved, "TypeError", algorithmId)
        ELSE Invoke([resolved EXCEPT !.algorithm = algorithm, !.pc = "convert"],
                    "jwkToCryptoKey")

\* from the key handle to the call of signer.verify
VerifyStep3(call) ==
    LET key == JwkToCryptoKey(call.vm) IN
    IF ~key.ok
    THEN Throw(call, "KeyConversionFailure", EmptyString)
    ELSE Invoke([call EXCEPT !.key = key, !.pc = "verifying"], "signer.verify")

SignerDid_WholeKid(kid) == kid

\* const [did] = kid.split('#')
SignerDid(kid) == Split(kid, Hash)[1]

\* from the verdict to the return
VerifyStep4(call) ==
    LET signedData      == call.header \o <<Dot>> \o call.payloadSeg
        signedDataBytes == StringToBytes(signedData)
        signatureBytes  == FromBase64Url(call.sigSeg).bytes
        isLegit == SignerVerify(call.algorithm.signer, call.key.key,
                                signedDataBytes, signatureBytes)
    IN  IF ~isLegit
        THEN Throw(call, "IntegrityMismatch", EmptyString)
        ELSE Return(call, SignerDid(call.jwsHeader.kid))

----------------------------------------------------------------------------
(* Crypto.digest *)

\* JSON values: a number, or an object, which is the sequence of its members
\* in insertion order (the order a JavaScript object enumerates its keys in)
JNum(n) == [t |-> "num", n |-> n, members |-> <<>>]
JObj(ms) == [t |-> "obj", n |-> 0, members |-> ms]
Member(k, v) == [k |-> k, v |-> v]

\* the index of the member with the least key, by code unit
RECURSIVE LeastMember(_, _, _)
LeastMember(ms, i, best) ==
    IF i > Len(ms) THEN best
    ELSE LeastMember(ms, i + 1, IF ms[i].k < ms[best].k THEN i ELSE best)

\* the members sorted by key, as RFC 8785 orders them
RECURSIVE SortMembers(_)
SortMembers(ms) ==
    IF ms = <<>> THEN <<>>
    ELSE LET i == LeastMember(ms, 1, 1) IN
         <<ms[i]>> \o SortMembers(SubSeq(ms, 1, i - 1) \o SubSeq(ms, i + 1, Len(ms)))

\* the text of a value, its members written sorted by key or in insertion
\* order: no whitespace, a one-digit number as its digit
RECURSIVE Serialize(_, _)
RECURSIVE SerializeMembers(_, _, _)
SerializeMembers(ms, i, sorted) ==
    IF i > Len(ms) THEN <<>>
    ELSE (IF i > 1 THEN <<Comma>> ELSE <<>>)
             \o <<Quote, ms[i].k, Quote, Colon>>
             \o Serialize(ms[i].v, sorted)
             \o SerializeMembers(ms, i + 1, sorted)

Serialize(v, sorted) ==
    IF v.t = "num" THEN <<Digit0 + v.n>>
    ELSE LET ms == IF sorted THEN SortMembers(v.members) ELSE v.members IN
         <<LBrace>> \o SerializeMembers(ms, 1, sorted) \o <<RBrace>>

Canonicalize_InsertionOrder(payload) == Serialize(payload, FALSE)

\* canonicalize(payload), RFC 8785
Canonicalize(payload) == Serialize(payload, TRUE)

\* sha256(bytes): a hash without collisions, each byte of the input moved to
\* the alphabet of hashes
Sha256(bytes) == [i \in 1..Len(bytes) |-> ShaBase + bytes[i]]

\* Crypto.digest(payload)
Digest(payload) ==
    LET canonicalized      == Canonicalize(payload)
        canonicalizedBytes == StringToBytes(canonicalized)
    IN  Sha256(canonicalizedBytes)

----------------------------------------------------------------------------
(* Requests of the HTTP request handlers *)

Reqs == 1..NumRequests

\* a request slot with no request in it
IdleRequest ==
    [handler |-> "none", pc |-> "idle",
     \* the request: what its body parses to, its Authorization header
     body |-> "none", authorization |-> Undefined,
     \* the local requestToken
     requestToken |-> Undefined,
     \* the collaborators invoked and the responses sent, in order
     trace |-> <<>>]

\* the opts of the handlers: is there a callback
NoCallbacks == [submitClose |-> [callback |-> FALSE],
                getExchanges |-> [callback |-> FALSE]]

Did(req, event) == [req EXCEPT !.trace = Append(@, event)]

\* res.status(n).json(...) or res.sendStatus(n), and the handler returns
Respond(req, status) == [Did(req, status) EXCEPT !.pc = "done"]

\* the handler returns, or rejects, without a response
Leave(req) == [req EXCEPT !.pc = "done"]

Responses(req) ==
    SelectSeq(req.trace, LAMBDA e : e \in {"200", "202", "400", "401"})

----------------------------------------------------------------------------
(* submitClose, one operator per stretch of code between two awaits *)

\* from the entry to the call of Message.parse
SubmitCloseStep1(body) ==
    Did([IdleRequest EXCEPT !.handler = "submitClose", !.body = body,
                            !.pc = "parsing"],
        "Message.parse")

\* from the outcome of Message.parse to the call of the callback
SubmitCloseStep2(req, callback) ==
    IF req.body = "unparseable"
    THEN Respond(req, "400")
    ELSE IF req.body # "close"
    THEN Respond(req, "400")
    ELSE IF ~callback
    THEN Respond(req, "202")
    ELSE [Did(req, "callback") EXCEPT !.pc = "callback"]

\* as SubmitCloseStep3, but the catch block answers 202 as well
SubmitCloseStep3_CatchAccepts(req, outcome) ==
    IF outcome = "returns"
    THEN Respond(Did(req, "callback returned"), "202")
    ELSE Respond(Did(req, "callback threw"), "202")

\* from the outcome of the callback to the end: the catch block is empty
SubmitCloseStep3(req, outcome) ==
    IF outcome = "returns"
    THEN Respond(Did(req, "callback returned"), "202")
    ELSE Leave(Did(req, "callback threw"))

----------------------------------------------------------------------------
(* getExchanges, one operator per stretch of code between two awaits *)

\* const [_, requestToken] = authzHeader.split('Bearer ')
RequestToken(authzHeader) ==
    LET parts == Split(authzHeader, SymBearer) IN
    IF Len(parts) >= 2 THEN parts[2] ELSE Undefined

\* from the entry to the call of TbdexHttpClient.verify
GetExchangesStep1(authzHeader) ==
    LET req == [IdleRequest EXCEPT !.handler = "getExchanges",
                                   !.authorization = authzHeader]
    IN  IF Falsy(authzHeader)
        THEN Respond(req, "401")
        ELSE LET requestToken == RequestToken(authzHeader) IN
             IF Falsy(requestToken)
             THEN Respond(req, "401")
             ELSE [Did(req, "TbdexHttpClient.verify")
                      EXCEPT !.requestToken = requestToken, !.pc = "verifying"]

\* as GetExchangesStep2, but a token that does not verify is let through
GetExchangesStep2_FailOpen(req, outcome) ==
    [Did(Did(req, IF outcome = "throws" THEN "verify threw" ELSE "verify returned"),
         "exchangesApi.getExchanges")
        EXCEPT !.pc = "querying"]

\* from the outcome of the verification to the call of exchangesApi
GetExchangesStep2(req, outcome) ==
    IF outcome = "throws"
    THEN Respond(Did(req, "verify threw"), "401")
    ELSE [Did(Did(req, "verify returned"), "exchangesApi.getExchanges")
             EXCEPT !.pc = "querying"]

\* from the exchanges to the call of the callback; a rejection of
\* exchangesApi.getExchanges is the rejection of the handler
GetExchangesStep3(req, outcome, callback) ==
    IF outcome = "throws"
    THEN Leave(Did(req, "getExchanges threw"))
    ELSE IF callback
    THEN [Did(Did(req, "getExchanges returned"), "callback") EXCEPT !.pc = "callback"]
    ELSE Respond(Did(req, "getExchanges returned"), "200")

\* from the outcome of the callback to the response
GetExchangesStep4(req, outcome) ==
    IF outcome = "throws"
    THEN Leave(Did(req, "callback threw"))
    ELSE Respond(Did(req, "callback returned"), "200")

----------------------------------------------------------------------------
(* Inputs and environment *)

PayloadBytes == {1, 2}
Payloads == UNION {[1..n -> PayloadBytes] : n \in 0..MaxPayloadLen}

Dids == {SymDidA, SymDidB}
Kids == {<<d, Hash, SymFrag>> : d \in Dids}

\* private keys: every combination of a declared alg, a declared crv and key
\* material
PrivateKeys ==
    [alg : {Undefined, ES256K, EdDSA}, crv : {Undefined, secp256k1, Ed25519},
     mat : 0..2]

\* what the DID document of the known kids can hold
Answers ==
    {Throws, NotVM, VMNoJwk}
        \cup {VM(c, m) : c \in {Undefined, secp256k1, Ed25519}, m \in 0..2}

\* strings that are no output of sign: all strings of dots and one base64url
\* character
FixedStrings ==
    UNION {[1..n -> {Dot, B64Base + Quote}] : n \in 0..MaxFixedLen}

\* deferenceDidUrl(kid) against the current DID documents (did-resolver.js)
Deref(res, kid) == IF kid \in Kids THEN res ELSE Throws

----------------------------------------------------------------------------
(* Actions *)

Init ==
    /\ algorithms = InitialAlgorithms
    /\ resolver \in Answers
    /\ calls = [c \in Procs |-> IdleCall]
    /\ wire = NoWire
    /\ digestLog = <<>>
    /\ options = NoCallbacks
    /\ requests = [r \in Reqs |-> IdleRequest]

\* as SignStart, but a key that the registry does not know is registered with
\* the ES256K signer before the call fails
SignStart_Registering(c, keys, kids, payloads, modes) ==
    /\ calls[c].pc = "idle"
    /\ \E jwk \in keys, kid \in kids, payload \in payloads, detached \in modes :
         /\ calls' = [calls EXCEPT ![c] =
                         SignStep1(algorithms, jwk, kid, payload, detached)]
         /\ algorithms' =
                IF SignAlgorithmId(jwk) \in DOMAIN algorithms THEN algorithms
                ELSE algorithms @@ (SignAlgorithmId(jwk) :> secp256k1Signer)
    /\ UNCHANGED <<resolver, wire, digestLog, options, requests>>

\* a caller enters Crypto.sign
SignStart(c, keys, kids, payloads, modes) ==
    /\ calls[c].pc = "idle"
    /\ \E jwk \in keys, kid \in kids, payload \in payloads, detached \in modes :
         calls' = [calls EXCEPT ![c] =
                      SignStep1(algorithms, jwk, kid, payload, detached)]
    /\ UNCHANGED <<algorithms, resolver, wire, digestLog, options, requests>>

\* await Jose.jwkToCryptoKey(...) resumes
SignConverted(c) ==
    /\ calls[c].op = "sign" /\ calls[c].pc = "convert"
    /\ calls' = [calls EXCEPT ![c] = SignStep2(calls[c])]
    /\ UNCHANGED <<algorithms, resolver, wire, digestLog, options, requests>>

\* await algorithm.signer.sign(...) resumes
SignSigned(c) ==
    /\ calls[c].op = "sign" /\ calls[c].pc = "signing"
    /\ calls' = [calls EXCEPT ![c] = SignStep3(calls[c])]
    /\ UNCHANGED <<algorithms, resolver, wire, digestLog, options, requests>>

\* a caller enters Crypto.verify
VerifyStart(c, signatures, detachedPayloads) ==
    /\ calls[c].pc = "idle"
    /\ \E signature \in signatures, detachedPayload \in detachedPayloads :
         calls' = [calls EXCEPT ![c] =
                      VerifyStep1(signature, detachedPayload, wire)]
    /\ UNCHANGED <<algorithms, resolver, wire, digestLog, options, requests>>

\* as VerifyResolved, but an answer that an earlier call got for the same kid
\* is used again
VerifyResolved_Cached(c) ==
    /\ calls[c].op = "verify" /\ calls[c].pc = "resolving"
    /\ LET earlier == {o \in Procs \ {c} :
                          /\ calls[o].op = "verify"
                          /\ calls[o].jwsHeader.kid = calls[c].jwsHeader.kid
                          /\ calls[o].vm.kind = "vm"}
           answer == IF earlier = {}
                     THEN Deref(resolver, calls[c].jwsHeader.kid)
                     ELSE calls[CHOOSE o \in earlier : TRUE].vm
       IN  calls' = [calls EXCEPT ![c] = VerifyStep2(algorithms, calls[c], answer)]
    /\ UNCHANGED <<algorithms, resolver, wire, digestLog, options, requests>>

\* await deferenceDidUrl(...) resumes with the answer of the moment
VerifyResolved(c) ==
    /\ calls[c].op = "verify" /\ calls[c].pc = "resolving"
    /\ calls' = [calls EXCEPT ![c] =
                    VerifyStep2(algorithms, calls[c],
                                Deref(resolver, calls[c].jwsHeader.kid))]
    /\ UNCHANGED <<algorithms, resolver, wire, digestLog, options, requests>>

\* await Jose.jwkToCryptoKey(...) resumes
VerifyConverted(c) ==
    /\ calls[c].op = "verify" /\ calls[c].pc = "convert"
    /\ calls' = [calls EXCEPT ![c] = VerifyStep3(calls[c])]
    /\ UNCHANGED <<algorithms, resolver, wire, digestLog, options, requests>>

\* as VerifyChecked, but the parsed header is kept in one place for all calls:
\* the call reads the header of the verify call that started last
VerifyChecked_SharedHeader(c) ==
    /\ calls[c].op = "verify" /\ calls[c].pc = "verifying"
    /\ LET others == {o \in Procs \ {c} :
                         calls[o].op = "verify" /\ calls[o].jwsHeader.ok}
           jwsHeader == IF others = {} THEN calls[c].jwsHeader
                        ELSE calls[CHOOSE o \in others : TRUE].jwsHeader
       IN  calls' = [calls EXCEPT ![c] =
                        VerifyStep4([calls[c] EXCEPT !.jwsHeader = jwsHeader])]
    /\ UNCHANGED <<algorithms, resolver, wire, digestLog, options, requests>>

\* await signer.verify(...) resumes
VerifyChecked(c) ==
    /\ calls[c].op = "verify" /\ calls[c].pc = "verifying"
    /\ calls' = [calls EXCEPT ![c] = VerifyStep4(calls[c])]
    /\ UNCHANGED <<algorithms, resolver, wire, digestLog, options, requests>>

\* the caller takes the outcome; a JWS that sign returned goes on the wire
Finish(c) ==
    /\ calls[c].pc = "done"
    /\ calls' = [calls EXCEPT ![c] = IdleCall]
    /\ wire' = IF calls[c].op = "sign" /\ calls[c].result.kind = "ok"
               THEN [sig |-> calls[c].result.val, payload |-> calls[c].payload,
                     jwk |-> calls[c].jwk, kid |-> calls[c].kid,
                     detached |-> calls[c].detached]
               ELSE wire
    /\ UNCHANGED <<algorithms, resolver, digestLog, options, requests>>

\* the DID document of the known kids changes (key rotation, outage, repair)
DidUpdate(answers) ==
    /\ \E a \in answers \ {resolver} : resolver' = a
    /\ UNCHANGED <<algorithms, calls, wire, digestLog, options, requests>>

\* the JWS on the wire is dropped
Drop ==
    /\ wire # NoWire
    /\ wire' = NoWire
    /\ UNCHANGED <<algorithms, resolver, calls, digestLog, options, requests>>

AllIdle == \A c \in Procs : calls[c].pc = "idle"

----------------------------------------------------------------------------
(* Spec: one call at a time, every input *)

\* three-segment strings that no sign call made: the header is an object with
\* alg or kid missing, empty or present, or a JSON string; the payload segment
\* is empty; the signature segment is empty or is no base64url
CraftedHeaders ==
    {ObjectToBase64Url([alg |-> a, kid |-> k]) :
        a \in {Undefined, EmptyString, ES256K},
        k \in {Undefined, EmptyString, <<SymDidA, Hash, SymFrag>>}}
        \cup {ToBase64Url(<<Quote, SymAlg, Quote>>)}

CraftedSignatures ==
    {h \o <<Dot, Dot>> \o sig : h \in CraftedHeaders, sig \in {EmptyString, <<Hash>>}}

\* what a caller hands to verify: the JWS on the wire, whole, cut after its
\* second segment or with one more segment; with nothing on the wire, a string
\* that no sign call made
SignatureInputs ==
    IF wire = NoWire THEN FixedStrings \cup CraftedSignatures
    ELSE LET parts == Split(wire.sig, Dot) IN
         {wire.sig, parts[1] \o <<Dot>> \o parts[2], wire.sig \o <<Dot>> \o parts[3]}

Next ==
    \/ wire = NoWire /\ SignStart(1, PrivateKeys, Kids, Payloads, BOOLEAN)
    \/ SignConverted(1)
    \/ SignSigned(1)
    \/ VerifyStart(1, SignatureInputs, {Undefined} \cup Payloads)
    \/ VerifyResolved(1)
    \/ VerifyConverted(1)
    \/ VerifyChecked(1)
    \/ Finish(1)
    \/ AllIdle /\ DidUpdate(Answers)
    \/ AllIdle /\ Drop

Spec == Init /\ [][Next]_vars

----------------------------------------------------------------------------
(* SpecTamper: one call at a time; verify is given the JWS on the wire with *)
(* one character replaced, removed or inserted                             *)

\* the characters a mutation writes: a dot, a character outside the base64url
\* alphabet, and base64url characters that stand for another DID, another alg,
\* a quote and another payload byte.  No mutation writes the tag of a
\* signature: only the holder of a private key can compute it.
MutationAlphabet ==
    {Dot, Hash, B64Base + SymDidB, B64Base + SymEdDSA, B64Base + Quote,
     B64Base + 2}

Mutations(s) ==
    ({[s EXCEPT ![i] = ch] : i \in 1..Len(s), ch \in MutationAlphabet}
        \cup {SubSeq(s, 1, i - 1) \o SubSeq(s, i + 1, Len(s)) : i \in 1..Len(s)}
        \cup {SubSeq(s, 1, i) \o <<ch>> \o SubSeq(s, i + 1, Len(s)) :
                 i \in 0..Len(s), ch \in MutationAlphabet})
    \ {s}

TamperKeys ==
    {[alg |-> ES256K, crv |-> secp256k1, mat |-> 1],
     [alg |-> ES256K, crv |-> Undefined, mat |-> 1],
     [alg |-> EdDSA, crv |-> Ed25519, mat |-> 2]}

TamperAnswers == {VM(secp256k1, 1), VM(Ed25519, 2)}

InitTamper == Init /\ resolver \in TamperAnswers

NextTamper ==
    \/ wire = NoWire
        /\ SignStart(1, TamperKeys, {<<SymDidA, Hash, SymFrag>>}, Payloads, BOOLEAN)
    \/ SignConverted(1)
    \/ SignSigned(1)
    \/ wire # NoWire
        /\ VerifyStart(1, Mutations(wire.sig), {Undefined, wire.payload})
    \/ VerifyResolved(1)
    \/ VerifyConverted(1)
    \/ VerifyChecked(1)
    \/ Finish(1)
    \/ AllIdle /\ DidUpdate(TamperAnswers)
    \/ AllIdle /\ Drop

SpecTamper == InitTamper /\ [][NextTamper]_vars

----------------------------------------------------------------------------
(* SpecConc: the calls of all slots interleave at their awaits, and the DID *)
(* document changes at any moment                                          *)

ConcKeys ==
    {[alg |-> ES256K, crv |-> secp256k1, mat |-> 1],
     [alg |-> EdDSA, crv |-> Undefined, mat |-> 2]}

ConcAnswers ==
    {Throws, VM(secp256k1, 0), VM(secp256k1, 1), VM(secp256k1, 2), VM(Ed25519, 2)}

InitConc == Init /\ resolver \in ConcAnswers

NextConc ==
    \/ \E c \in Procs :
          \/ SignStart(c, ConcKeys, Kids, {<<1>>}, {FALSE})
          \/ SignConverted(c)
          \/ SignSigned(c)
          \/ wire # NoWire /\ VerifyStart(c, {wire.sig}, {Undefined})
          \/ VerifyResolved(c)
          \/ VerifyConverted(c)
          \/ VerifyChecked(c)
          \/ Finish(c)
    \/ DidUpdate(ConcAnswers)

SpecConc == InitConc /\ [][NextConc]_vars

----------------------------------------------------------------------------
(* SpecDigest: Crypto.digest is called twice, on every pair of JSON values *)

JsonKeys    == {97, 98, 99}     \* 'a', 'b', 'c'
JsonNumbers == {1, 2}

\* the member lists of at most MaxMembers members with distinct keys
MemberLists(values) ==
    UNION {{ms \in [1..n -> {Member(k, v) : k \in JsonKeys, v \in values}] :
               \A i, j \in 1..n : i # j => ms[i].k # ms[j].k} :
           n \in 0..MaxMembers}

FlatObjects == {JObj(ms) : ms \in MemberLists({JNum(n) : n \in JsonNumbers})}

\* numbers, objects of numbers in every insertion order, and objects with an
\* object of MaxMembers members inside
JsonValues ==
    {JNum(n) : n \in JsonNumbers}
        \cup FlatObjects
        \cup {JObj(<<Member(97, o)>>) :
                 o \in {f \in FlatObjects : Len(f.members) = MaxMembers}}

\* the two calls that are compared
DigestCalls == {1, 2}

\* a caller calls Crypto.digest(payload) and keeps the bytes
DigestCall(payloads) ==
    /\ Len(digestLog) < Cardinality(DigestCalls)
    /\ \E payload \in payloads :
          digestLog' = Append(digestLog, [payload |-> payload, out |-> Digest(payload)])
    /\ UNCHANGED <<algorithms, resolver, calls, wire, options, requests>>

InitDigest == Init /\ resolver = Throws

NextDigest == DigestCall(JsonValues)

SpecDigest == InitDigest /\ [][NextDigest]_vars

----------------------------------------------------------------------------
(* SpecClose: the submitClose handler serves NumRequests requests, which     *)
(* interleave at their awaits                                                *)

\* what a request body is to Message.parse: no message, or a message of a kind
Bodies   == {"unparseable", "rfq", "order", "close"}
Outcomes == {"returns", "throws"}

\* a request arrives at the handler
CloseReceive(r) ==
    /\ requests[r].pc = "idle"
    /\ \E body \in Bodies :
          requests' = [requests EXCEPT ![r] = SubmitCloseStep1(body)]
    /\ UNCHANGED <<algorithms, resolver, calls, wire, digestLog, options>>

\* await Message.parse(req.body) resumes
CloseParsed(r) ==
    /\ requests[r].handler = "submitClose" /\ requests[r].pc = "parsing"
    /\ requests' = [requests EXCEPT ![r] =
                        SubmitCloseStep2(requests[r], options.submitClose.callback)]
    /\ UNCHANGED <<algorithms, resolver, calls, wire, digestLog, options>>

\* await callback(...) resumes: the callback returned or threw
CloseCallbackSettled(r) ==
    /\ requests[r].handler = "submitClose" /\ requests[r].pc = "callback"
    /\ \E outcome \in Outcomes :
          requests' = [requests EXCEPT ![r] = SubmitCloseStep3(requests[r], outcome)]
    /\ UNCHANGED <<algorithms, resolver, calls, wire, digestLog, options>>

InitHandlers ==
    /\ algorithms = InitialAlgorithms
    /\ resolver = Throws
    /\ calls = [c \in Procs |-> IdleCall]
    /\ wire = NoWire
    /\ digestLog = <<>>
    /\ options \in [{"submitClose", "getExchanges"} -> [callback : BOOLEAN]]
    /\ requests = [r \in Reqs |-> IdleRequest]

InitClose == InitHandlers /\ ~options.getExchanges.callback

NextClose ==
    \E r \in Reqs :
        \/ CloseReceive(r)
        \/ CloseParsed(r)
        \/ CloseCallbackSettled(r)

SpecClose == InitClose /\ [][NextClose]_vars

\* an awaited promise settles: Message.parse always does, and the callback is
\* taken to return or throw
FairClose ==
    \A r \in Reqs : WF_vars(CloseParsed(r)) /\ WF_vars(CloseCallbackSettled(r))

SpecCloseFair == InitClose /\ [][NextClose]_vars /\ FairClose

----------------------------------------------------------------------------
(* SpecExchanges: the getExchanges handler serves NumRequests requests       *)

\* Authorization headers: none, empty, 'Bearer ' alone, a token, a token with
\* no 'Bearer ', 'Bearer ' after a token, 'Bearer ' twice, a scheme before
\* 'Bearer ', two tokens
AuthorizationHeaders ==
    {Undefined, EmptyString,
     <<SymBearer>>, <<SymBearer, SymTokenA>>, <<SymTokenA>>,
     <<SymTokenA, SymBearer>>, <<SymBearer, SymBearer, SymTokenA>>,
     <<SymBasic, SymBearer, SymTokenB>>,
     <<SymBearer, SymTokenA, SymBearer, SymTokenB>>}

\* a request arrives at the handler
ExchangesReceive(r) ==
    /\ requests[r].pc = "idle"
    /\ \E authzHeader \in AuthorizationHeaders :
          requests' = [requests EXCEPT ![r] = GetExchangesStep1(authzHeader)]
    /\ UNCHANGED <<algorithms, resolver, calls, wire, digestLog, options>>

\* await TbdexHttpClient.verify(requestToken) resumes
ExchangesVerified(r) ==
    /\ requests[r].handler = "getExchanges" /\ requests[r].pc = "verifying"
    /\ \E outcome \in Outcomes :
          requests' = [requests EXCEPT ![r] = GetExchangesStep2(requests[r], outcome)]
    /\ UNCHANGED <<algorithms, resolver, calls, wire, digestLog, options>>

\* await exchangesApi.getExchanges(...) resumes
ExchangesQueried(r) ==
    /\ requests[r].handler = "getExchanges" /\ requests[r].pc = "querying"
    /\ \E outcome \in Outcomes :
          requests' = [requests EXCEPT ![r] =
                          GetExchangesStep3(requests[r], outcome,
                                            options.getExchanges.callback)]
    /\ UNCHANGED <<algorithms, resolver, calls, wire, digestLog, options>>

\* await callback(...) resumes
ExchangesCallbackSettled(r) ==
    /\ requests[r].handler = "getExchanges" /\ requests[r].pc = "callback"
    /\ \E outcome \in Outcomes :
          requests' = [requests EXCEPT ![r] = GetExchangesStep4(requests[r], outcome)]
    /\ UNCHANGED <<algorithms, resolver, calls, wire, digestLog, options>>

InitExchanges == InitHandlers /\ ~options.submitClose.callback

NextExchanges ==
    \E r \in Reqs :
        \/ ExchangesReceive(r)
        \/ ExchangesVerified(r)
        \/ ExchangesQueried(r)
        \/ ExchangesCallbackSettled(r)

SpecExchanges == InitExchanges /\ [][NextExchanges]_vars

----------------------------------------------------------------------------
(* The calls run alone, from entry to return *)

SignAlone(reg, jwk, kid, payload, detached) ==
    LET s1 == SignStep1(reg, jwk, kid, payload, detached) IN
    IF s1.pc = "done" THEN s1.result
    ELSE LET s2 == SignStep2(s1) IN
         IF s2.pc = "done" THEN s2.result ELSE SignStep3(s2).result

\* answer is what deferenceDidUrl answers for the known kids
VerifyAlone(reg, signature, detachedPayload, answer) ==
    LET v1 == VerifyStep1(signature, detachedPayload, NoWire) IN
    IF v1.pc = "done" THEN v1.result
    ELSE LET v2 == VerifyStep2(reg, v1, Deref(answer, v1.jwsHeader.kid)) IN
         IF v2.pc = "done" THEN v2.result
         ELSE LET v3 == VerifyStep3(v2) IN
              IF v3.pc = "done" THEN v3.result ELSE VerifyStep4(v3).result

----------------------------------------------------------------------------
(* Vocabulary of the properties *)

Succeeded(call) == call.pc = "done" /\ call.result.kind = "ok"
Failed(call, kind) == call.pc = "done" /\ call.result.kind = kind

\* the registry key of a private key, a missing field counting as ''
DeclaredId(jwk) ==
    (IF jwk.alg = Undefined THEN EmptyString ELSE jwk.alg) \o <<Colon>>
        \o (IF jwk.crv = Undefined THEN EmptyString ELSE jwk.crv)

Supported(jwk) == DeclaredId(jwk) \in DOMAIN InitialAlgorithms

\* the verification method that publishes the public half of a supported
\* private key: the same key material, declared on the curve of its algorithm
MatchingVM(jwk) == VM(InitialAlgorithms[DeclaredId(jwk)].crv, jwk.mat)

\* the call returned the DID of kid, the part before '#'
ReturnedDidOf(call, kid) ==
    /\ Succeeded(call)
    /\ \E d \in Dids : kid = <<d, Hash, SymFrag>> /\ call.result.val = <<d>>

\* a finished verify call that was given, unchanged, the JWS a sign call made,
\* while kid resolved to the signer's public key
VerifiedOwn(call) ==
    /\ call.op = "verify" /\ call.pc = "done"
    /\ call.src # NoWire
    /\ call.signature = call.src.sig
    /\ resolver = MatchingVM(call.src.jwk)

NumberOfDots(s) == Cardinality({i \in 1..Len(s) : s[i] = Dot})

----------------------------------------------------------------------------
(* Properties of Spec *)

\* C1: verifying an attached JWS that sign made, with kid resolving to the
\* signer's public key, succeeds and returns the DID part of kid, for every
\* registry key, payload (the empty one included) and kid.
C1_AttachedRoundTrip ==
    \A c \in Procs :
        (VerifiedOwn(calls[c]) /\ ~calls[c].src.detached
            /\ calls[c].payload = Undefined)
        => ReturnedDidOf(calls[c], calls[c].src.kid)

C1_Witness ==
    /\ VerifiedOwn(calls[1]) /\ ~calls[1].src.detached
    /\ calls[1].payload = Undefined
    /\ calls[1].src.payload = EmptyString
    /\ calls[1].src.jwk.crv = Undefined
    /\ calls[1].result.val = <<SymDidB>>

\* C2: verifying a detached JWS with the payload it was made for succeeds and
\* returns the signer DID; with any other payload it fails with
\* IntegrityMismatch.
C2_DetachedRoundTrip ==
    \A c \in Procs :
        (VerifiedOwn(calls[c]) /\ calls[c].src.detached
            /\ calls[c].payload # Undefined)
        => IF calls[c].payload = calls[c].src.payload
           THEN ReturnedDidOf(calls[c], calls[c].src.kid)
           ELSE Failed(calls[c], "IntegrityMismatch")

C2_Witness ==
    /\ VerifiedOwn(calls[1]) /\ calls[1].src.detached
    /\ calls[1].src.payload = EmptyString
    /\ calls[1].payload # Undefined /\ calls[1].payload # EmptyString
    /\ Failed(calls[1], "IntegrityMismatch")

\* C4: verify fails with MissingSignature on the empty string and with
\* MalformedSignature on every non-empty string that does not have exactly
\* two dots.
C4_SegmentCount ==
    \A c \in Procs :
        (calls[c].op = "verify" /\ calls[c].pc # "idle")
        => /\ calls[c].signature = EmptyString
                => Failed(calls[c], "MissingSignature")
           /\ (calls[c].signature # EmptyString
                    /\ NumberOfDots(calls[c].signature) # 2)
                => Failed(calls[c], "MalformedSignature")

C4_Witness ==
    /\ calls[1].op = "verify"
    /\ NumberOfDots(calls[1].signature) = 3
    /\ calls[1].src # NoWire
    /\ Failed(calls[1], "MalformedSignature")

\* the verify call got a public key whose crv does not pair with the alg of
\* the header in the registry
RegistryMiss(call) ==
    /\ call.op = "verify" /\ call.pc = "done"
    /\ call.vm.kind = "vm" /\ call.vm.hasJwk
    /\ FromBase64Url(call.sigSeg).ok
    /\ (Interpolate(call.jwsHeader.alg) \o <<Colon>> \o Interpolate(call.vm.crv))
            \notin DOMAIN algorithms

\* C5: a verify call whose '<header.alg>:<crv of the resolved key>' is no key
\* of the registry fails with UnsupportedAlgorithm, before any key conversion
\* or signature check.
C5_VerifyUnsupported ==
    \A c \in Procs :
        RegistryMiss(calls[c])
        => /\ Failed(calls[c], "UnsupportedAlgorithm")
           /\ calls[c].trace = <<"deferenceDidUrl">>

C5_Witness ==
    /\ RegistryMiss(calls[1])
    /\ calls[1].src # NoWire /\ calls[1].signature = calls[1].src.sig
    /\ calls[1].vm.crv = Undefined
    /\ Failed(calls[1], "TypeError")
    /\ calls[1].trace = <<"deferenceDidUrl">>

\* C6: sign with a private key whose declared alg/crv is no registry key fails
\* with UnsupportedAlgorithm naming the computed key, having invoked neither
\* key conversion nor signing, and with no signature made.
C6_SignUnsupported ==
    \A c \in Procs :
        (calls[c].op = "sign" /\ ~Supported(calls[c].jwk))
        => /\ Failed(calls[c], "UnsupportedAlgorithm")
           /\ calls[c].result.val = DeclaredId(calls[c].jwk)
           /\ calls[c].trace = <<>>
           /\ calls[c].sigSeg = EmptyString

C6_Witness ==
    /\ calls[1].op = "sign"
    /\ calls[1].jwk.alg = Undefined /\ calls[1].jwk.crv = Ed25519
    /\ Failed(calls[1], "UnsupportedAlgorithm")

\* the payload segment of the JWS a sign call returned
PayloadSegment(call) == Split(call.result.val, Dot)[2]

\* C8 as stated: the payload segment of a JWS that sign returns is empty
\* exactly when sign was called with detached = true.
C8_EmptyIffDetached ==
    \A c \in Procs :
        (calls[c].op = "sign" /\ Succeeded(calls[c]))
        => (PayloadSegment(calls[c]) = EmptyString <=> calls[c].detached)

\* C8, amended: the payload segment is empty exactly when sign was called
\* with detached = true or with the empty payload.
C8_EmptyIffDetachedOrEmptyPayload ==
    \A c \in Procs :
        (calls[c].op = "sign" /\ Succeeded(calls[c]))
        => /\ NumberOfDots(calls[c].result.val) = 2
           /\ PayloadSegment(calls[c]) = EmptyString
                <=> (calls[c].detached \/ calls[c].payload = EmptyString)

C8_Witness ==
    /\ calls[1].op = "sign" /\ Succeeded(calls[1])
    /\ ~calls[1].detached
    /\ calls[1].payload = EmptyString
    /\ PayloadSegment(calls[1]) = EmptyString

\* the steps of verify in the order of the code, and for each the errors it
\* ends the call with and the collaborators invoked when it does
PipelineSteps ==
    << [step |-> "empty signature",  kinds |-> {"MissingSignature"},   awaited |-> 0],
       [step |-> "segment count",    kinds |-> {"MalformedSignature"}, awaited |-> 0],
       [step |-> "detached payload", kinds |-> {"MalformedSignature"}, awaited |-> 0],
       [step |-> "header",           kinds |-> {"SyntaxError", "MalformedHeader"},
                                                                       awaited |-> 0],
       [step |-> "DID resolution",   kinds |-> {"KeyResolutionFailure",
                                                "NotVerificationMethod"},
                                                                       awaited |-> 1],
       [step |-> "public key",       kinds |-> {"UnresolvableKey"},    awaited |-> 1],
       [step |-> "signature decoding", kinds |-> {"SyntaxError"},      awaited |-> 1],
       [step |-> "registry lookup",  kinds |-> {"TypeError"},          awaited |-> 1],
       [step |-> "key conversion",   kinds |-> {"KeyConversionFailure"}, awaited |-> 2],
       [step |-> "signature check",  kinds |-> {"IntegrityMismatch"},  awaited |-> 3] >>

Collaborators == <<"deferenceDidUrl", "jwkToCryptoKey", "signer.verify">>

\* the steps whose contract the options (signature, detachedPayload) and the
\* DID document `answer` violate, each contract stated on its own: a contract
\* that reads a part of the input counts only when that part exists
ViolatedSteps(signature, detachedPayload, answer) ==
    LET parts   == Split(signature, Dot)
        three   == Len(parts) = 3
        header  == IF three THEN Base64UrlToObject(parts[1]) ELSE NoHeader
        headerOk == three /\ header.ok /\ header.alg \notin {Undefined, EmptyString}
                          /\ header.kid \notin {Undefined, EmptyString}
        vm      == IF headerOk THEN Deref(answer, header.kid) ELSE Throws
        hasKey  == headerOk /\ vm.kind = "vm" /\ vm.hasJwk
        sigOk   == three /\ FromBase64Url(parts[3]).ok
        id      == Interpolate(header.alg) \o <<Colon>> \o Interpolate(vm.crv)
        known   == hasKey /\ id \in DOMAIN InitialAlgorithms
        usable  == hasKey /\ vm.mat # 0
        payloadSeg == IF detachedPayload # Undefined
                      THEN ToBase64Url(detachedPayload) ELSE parts[2]
    IN  {i \in 1..Len(PipelineSteps) :
            \/ i = 1 /\ signature = EmptyString
            \/ i = 2 /\ ~three
            \/ i = 3 /\ three /\ detachedPayload # Undefined /\ parts[2] # EmptyString
            \/ i = 4 /\ three /\ ~headerOk
            \/ i = 5 /\ headerOk /\ vm.kind # "vm"
            \/ i = 6 /\ headerOk /\ vm.kind = "vm" /\ ~vm.hasJwk
            \/ i = 7 /\ three /\ ~sigOk
            \/ i = 8 /\ hasKey /\ ~known
            \/ i = 9 /\ hasKey /\ ~usable
            \/ i = 10 /\ known /\ usable /\ sigOk
                      /\ ~SignerVerify(InitialAlgorithms[id].signer, vm.mat,
                                       parts[1] \o <<Dot>> \o payloadSeg,
                                       FromBase64Url(parts[3]).bytes)}

Earliest(steps) == CHOOSE i \in steps : \A j \in steps : i <= j

TimesInvoked(call, name) ==
    Cardinality({i \in DOMAIN call.trace : call.trace[i] = name})

\* C12: a finished verify call succeeded when its input violates no step, and
\* otherwise failed with an error of the earliest step its input violates,
\* having awaited the collaborators that precede that step and no other;
\* deferenceDidUrl is invoked at most once, and not at all by a call that
\* fails one of the first four steps.
C12_VerifyPipelineOrder ==
    \A c \in Procs :
        calls[c].op = "verify"
        => /\ TimesInvoked(calls[c], "deferenceDidUrl") <= 1
           /\ calls[c].pc = "done"
              => LET violated == ViolatedSteps(calls[c].signature,
                                               calls[c].payload, resolver)
                 IN  IF violated = {}
                     THEN /\ Succeeded(calls[c])
                          /\ calls[c].trace = Collaborators
                     ELSE LET first == PipelineSteps[Earliest(violated)] IN
                          /\ calls[c].result.kind \in first.kinds
                          /\ calls[c].trace = SubSeq(Collaborators, 1, first.awaited)
                          /\ Earliest(violated) <= 4
                                => TimesInvoked(calls[c], "deferenceDidUrl") = 0

\* a JWS that sign made, given with a detached payload while its payload
\* segment is full and while the resolver fails: two steps violated at once
C12_Witness ==
    /\ calls[1].op = "verify" /\ calls[1].pc = "done"
    /\ calls[1].src # NoWire /\ calls[1].signature = calls[1].src.sig
    /\ {3, 5} \subseteq ViolatedSteps(calls[1].signature, calls[1].payload, resolver)
    /\ Failed(calls[1], "MalformedSignature")
    /\ calls[1].trace = <<>>

\* a finished verify call whose signature has three segments and passes the
\* detached-payload check
ReachedHeader(call) ==
    /\ call.op = "verify" /\ call.pc = "done"
    /\ Len(Split(call.signature, Dot)) = 3
    /\ call.payload # Undefined => Split(call.signature, Dot)[2] = EmptyString

HeaderOf(call) == Base64UrlToObject(Split(call.signature, Dot)[1])

\* C13: a verify call that reaches the header step with a header segment that
\* does not decode to an object with a non-empty alg and a non-empty kid
\* fails with MalformedHeader.
C13_BadHeaderMalformedHeader ==
    \A c \in Procs :
        (ReachedHeader(calls[c])
            /\ (~HeaderOf(calls[c]).ok
                    \/ HeaderOf(calls[c]).alg \in {Undefined, EmptyString}
                    \/ HeaderOf(calls[c]).kid \in {Undefined, EmptyString}))
        => Failed(calls[c], "MalformedHeader")

\* a header segment that is no base64url JSON ends the call with the error of
\* the decoder
C13_Witness ==
    /\ ReachedHeader(calls[1])
    /\ Split(calls[1].signature, Dot)[1] # EmptyString
    /\ ~HeaderOf(calls[1]).ok
    /\ Failed(calls[1], "SyntaxError")
    /\ calls[1].trace = <<>>

\* what holds of the header step: a header that decodes, with alg or kid
\* missing or empty, fails with MalformedHeader
HeaderFieldsRequired ==
    \A c \in Procs :
        (ReachedHeader(calls[c]) /\ HeaderOf(calls[c]).ok
            /\ (HeaderOf(calls[c]).alg \in {Undefined, EmptyString}
                    \/ HeaderOf(calls[c]).kid \in {Undefined, EmptyString}))
        => Failed(calls[c], "MalformedHeader") /\ calls[c].trace = <<>>

\* a finished verify call that invoked deferenceDidUrl; the DID documents do
\* not change while a call runs, so the answer it got is the current one
Resolved(call) ==
    /\ call.op = "verify" /\ call.pc = "done"
    /\ TimesInvoked(call, "deferenceDidUrl") = 1

AnswerTo(call) == Deref(resolver, call.jwsHeader.kid)

\* the call ended at the resolution: no registry entry was taken, no key was
\* converted, no signature was checked, no DID was returned
EndedAtResolution(call) ==
    /\ call.trace = <<"deferenceDidUrl">>
    /\ call.algorithm = NotFound
    /\ call.key = NoKey
    /\ ~Succeeded(call)

\* C14: a verify call whose deferenceDidUrl throws fails with
\* KeyResolutionFailure, one that resolves to a verification method without
\* publicKeyJwk fails with UnresolvableKey, and both end at the resolution.
C14_ResolutionFailures ==
    \A c \in Procs :
        Resolved(calls[c])
        => /\ AnswerTo(calls[c]).kind = "throws"
                => /\ Failed(calls[c], "KeyResolutionFailure")
                   /\ EndedAtResolution(calls[c])
           /\ (AnswerTo(calls[c]).kind = "vm" /\ ~AnswerTo(calls[c]).hasJwk)
                => /\ Failed(calls[c], "UnresolvableKey")
                   /\ EndedAtResolution(calls[c])

\* a JWS that sign made, verified while kid resolves to a verification method
\* without publicKeyJwk
C14_Witness ==
    /\ Resolved(calls[1])
    /\ calls[1].src # NoWire /\ calls[1].signature = calls[1].src.sig
    /\ resolver = VMNoJwk
    /\ Failed(calls[1], "UnresolvableKey")
    /\ EndedAtResolution(calls[1])

\* the header of the JWS a sign call returned, decoded
SignedHeader(call) == Base64UrlToObject(Split(call.result.val, Dot)[1])

\* C15: sign looks the registry up under the alg and crv the private key
\* declares, a missing one counting as '': it fails as unsupported exactly
\* when that key is not in the registry; and a JWS it returns has three
\* segments and a header that decodes to the alg of the registry entry and the
\* kid of the call, so ES256K for a key that declares only crv secp256k1 or
\* only alg ES256K, and EdDSA for an Ed25519 key.
C15_HeaderAlgCanonical ==
    \A c \in Procs :
        (calls[c].op = "sign" /\ calls[c].pc = "done")
        => /\ Failed(calls[c], "UnsupportedAlgorithm") <=> ~Supported(calls[c].jwk)
           /\ Succeeded(calls[c])
                => /\ NumberOfDots(calls[c].result.val) = 2
                   /\ SignedHeader(calls[c]) =
                          [ok |-> TRUE,
                           alg |-> InitialAlgorithms[DeclaredId(calls[c].jwk)].alg,
                           kid |-> calls[c].kid]
                   /\ calls[c].jwk.crv = secp256k1 => SignedHeader(calls[c]).alg = ES256K
                   /\ calls[c].jwk.alg = ES256K => SignedHeader(calls[c]).alg = ES256K
                   /\ calls[c].jwk.crv = Ed25519 => SignedHeader(calls[c]).alg = EdDSA

\* a key that declares only crv secp256k1 signs with alg ES256K in the header
C15_Witness ==
    /\ calls[1].op = "sign" /\ Succeeded(calls[1])
    /\ calls[1].jwk.alg = Undefined /\ calls[1].jwk.crv = secp256k1
    /\ SignedHeader(calls[1]).alg = ES256K
    /\ SignedHeader(calls[1]).kid = <<SymDidB, Hash, SymFrag>>

----------------------------------------------------------------------------
(* Properties of SpecTamper *)

\* a finished verify call that was given a mutation of a JWS which verify
\* accepts with the same detachedPayload and the same DID document
VerifiedTampered(call) ==
    /\ call.op = "verify" /\ call.pc = "done"
    /\ call.src # NoWire
    /\ call.signature # call.src.sig
    /\ VerifyAlone(algorithms, call.src.sig, call.payload, resolver).kind = "ok"

\* C3: a mutated JWS fails verification, and with MalformedHeader,
\* IntegrityMismatch or MalformedSignature.
C3_TamperThreeKinds ==
    \A c \in Procs :
        VerifiedTampered(calls[c])
        => calls[c].result.kind
               \in {"MalformedHeader", "IntegrityMismatch", "MalformedSignature"}

\* what the code does to a mutated JWS: it never verifies; the call fails with
\* MalformedSignature, MalformedHeader, IntegrityMismatch, with
\* KeyResolutionFailure when the mutated kid does not resolve, or with the
\* SyntaxError of a segment that does not decode or the TypeError of a
\* registry miss.
TamperRejected ==
    \A c \in Procs :
        VerifiedTampered(calls[c])
        => calls[c].result.kind
               \in {"MalformedSignature", "MalformedHeader", "IntegrityMismatch",
                    "KeyResolutionFailure", "SyntaxError", "TypeError"}

\* a mutation of the header segment alone, which no longer decodes
C3_Witness ==
    /\ VerifiedTampered(calls[1])
    /\ NumberOfDots(calls[1].signature) = 2
    /\ Split(calls[1].signature, Dot)[2] = Split(calls[1].src.sig, Dot)[2]
    /\ Split(calls[1].signature, Dot)[3] = Split(calls[1].src.sig, Dot)[3]
    /\ Failed(calls[1], "SyntaxError")
    /\ calls[1].trace = <<>>

----------------------------------------------------------------------------
(* Properties of SpecConc *)

\* two verify calls with the same options
SameOptions(a, b) ==
    /\ a.op = "verify" /\ b.op = "verify"
    /\ a.signature = b.signature /\ a.payload = b.payload

\* call b resolved kid to a public key that is not the one call a resolved
Rotated(a, b) ==
    /\ a.vm.kind = "vm" /\ a.vm.hasJwk
    /\ b.vm.kind = "vm" /\ b.vm.hasJwk
    /\ a.vm.mat # b.vm.mat

\* the step in which a verify call comes back from deferenceDidUrl
ResolutionStep(c) ==
    /\ calls[c].op = "verify" /\ calls[c].pc = "resolving"
    /\ calls'[c].pc # "resolving"

\* every verify call that passes the structural checks invokes
\* deferenceDidUrl, once and first, and goes on with the answer of the moment
ResolvesAnew ==
    /\ \A c \in Procs :
          ResolutionStep(c)
          => calls'[c].vm = Deref(resolver, calls[c].jwsHeader.kid)
    /\ \A c \in Procs :
          (calls'[c].op = "verify" /\ calls'[c].pc \in {"convert", "verifying"})
          => /\ calls'[c].trace[1] = "deferenceDidUrl"
             /\ Cardinality({i \in DOMAIN calls'[c].trace :
                                calls'[c].trace[i] = "deferenceDidUrl"}) = 1

\* C7 as stated: when the public key that kid resolves to has changed since a
\* verify call succeeded, the next verify call on the same signature fails
\* with IntegrityMismatch.
C7_RotationIntegrityMismatch ==
    \A c1, c2 \in Procs :
        (SameOptions(calls[c1], calls[c2]) /\ Succeeded(calls[c1])
            /\ calls[c2].pc = "done" /\ Rotated(calls[c1], calls[c2]))
        => Failed(calls[c2], "IntegrityMismatch")

RotationObserved ==
    \A c1, c2 \in Procs :
        (SameOptions(calls[c1], calls[c2]) /\ Succeeded(calls[c1])
            /\ calls[c2].pc = "done" /\ Rotated(calls[c1], calls[c2]))
        => /\ ~Succeeded(calls[c2])
           /\ ((Interpolate(calls[c2].jwsHeader.alg) \o <<Colon>>
                    \o Interpolate(calls[c2].vm.crv)) \in DOMAIN InitialAlgorithms
                    /\ JwkToCryptoKey(calls[c2].vm).ok)
                => Failed(calls[c2], "IntegrityMismatch")

\* C7, amended: verification results are not cached, every verify call that
\* passes the structural checks resolves kid anew and is decided by the key of
\* the moment; after a rotation the next verify call on a signature of the old
\* key never returns the DID, and it fails with IntegrityMismatch when the new
\* key converts and its crv pairs with the alg of the header in the registry
\* (with the failure of the registry lookup or of the conversion otherwise).
C7_NotCached == []RotationObserved /\ [][ResolvesAnew]_vars

C7_Witness ==
    /\ SameOptions(calls[1], calls[2])
    /\ Succeeded(calls[1])
    /\ Rotated(calls[1], calls[2])
    /\ resolver = calls[2].vm
    /\ Failed(calls[2], "IntegrityMismatch")

\* a step of call c other than the return of a JWS to the caller of sign
CallStep(c) ==
    /\ calls'[c] # calls[c]
    /\ ~(calls[c].op = "sign" /\ Succeeded(calls[c]))

\* a call changes nothing but its own locals, and a finished call leaves
\* nothing in its slot
NoStateLeftBehind ==
    \A c \in Procs :
        CallStep(c)
        => /\ algorithms' = algorithms
           /\ resolver' = resolver
           /\ wire' = wire
           /\ \A o \in Procs \ {c} : calls'[o] = calls[o]
           /\ calls[c].pc = "done" => calls'[c] = IdleCall

\* a verify call that got an answer from deferenceDidUrl, while a call with
\* the same options failed on a resolution failure, ends as it ends alone
RetryAsIfFirst ==
    \A c1, c2 \in Procs :
        (SameOptions(calls[c1], calls[c2])
            /\ Failed(calls[c1], "KeyResolutionFailure")
            /\ calls[c2].pc = "done" /\ calls[c2].vm.kind # "throws")
        => calls[c2].result =
               VerifyAlone(InitialAlgorithms, calls[c2].signature,
                           calls[c2].payload, calls[c2].vm)

\* C9: a failed sign or verify call leaves no state behind (the registry, the
\* DID documents, the other calls are as they were), and retrying a verify
\* call that failed on a transient resolution failure gives the result the
\* call gives when it is the first.
C9_FailedCallLeavesNothing == []RetryAsIfFirst /\ [][NoStateLeftBehind]_vars

C9_Witness ==
    /\ SameOptions(calls[1], calls[2])
    /\ Failed(calls[1], "KeyResolutionFailure")
    /\ Succeeded(calls[2])
    /\ algorithms = InitialAlgorithms

\* C10: under every interleaving each call ends as it ends alone with the same
\* options and the same answer of deferenceDidUrl, and the registry is in
\* every state what it was at construction.
C10_CallsIndependent ==
    /\ algorithms = InitialAlgorithms
    /\ \A c \in Procs :
          calls[c].pc = "done"
          => IF calls[c].op = "sign"
             THEN calls[c].result =
                      SignAlone(InitialAlgorithms, calls[c].jwk, calls[c].kid,
                                calls[c].payload, calls[c].detached)
             ELSE calls[c].result =
                      VerifyAlone(InitialAlgorithms, calls[c].signature,
                                  calls[c].payload, calls[c].vm)

C10_Witness ==
    /\ calls[1].op = "verify" /\ calls[2].op = "verify"
    /\ calls[1].signature # calls[2].signature
    /\ Succeeded(calls[1]) /\ Succeeded(calls[2])
    /\ calls[1].result.val # calls[2].result.val

----------------------------------------------------------------------------
(* Properties of SpecDigest *)

\* two JSON values equal up to the order of the members of their objects
RECURSIVE StructurallyEqual(_, _)
StructurallyEqual(a, b) ==
    /\ a.t = b.t
    /\ a.n = b.n
    /\ Len(a.members) = Len(b.members)
    /\ \A i \in DOMAIN a.members :
          \E j \in DOMAIN b.members :
             /\ a.members[i].k = b.members[j].k
             /\ StructurallyEqual(a.members[i].v, b.members[j].v)

\* C11: two digest calls on values that are equal up to the order of object
\* keys (on the same value in particular) return the same bytes, and digest
\* calls leave the registry, the DID documents, the calls and the requests as
\* they were.
C11_DigestKeyOrderIndependent ==
    /\ \A i, j \in DOMAIN digestLog :
          StructurallyEqual(digestLog[i].payload, digestLog[j].payload)
          => digestLog[i].out = digestLog[j].out
    /\ algorithms = InitialAlgorithms
    /\ resolver = Throws
    /\ calls = [c \in Procs |-> IdleCall]
    /\ wire = NoWire
    /\ options = NoCallbacks
    /\ requests = [r \in Reqs |-> IdleRequest]

C11_Witness ==
    /\ Len(digestLog) = 2
    /\ digestLog[1].payload # digestLog[2].payload
    /\ StructurallyEqual(digestLog[1].payload, digestLog[2].payload)
    /\ digestLog[1].payload.members[1].v.t = "obj"
    /\ digestLog[1].out = digestLog[2].out
    /\ Len(digestLog[1].out) > 2

----------------------------------------------------------------------------
(* Properties of SpecClose and SpecCloseFair *)

Occurs(req, event) == \E i \in DOMAIN req.trace : req.trace[i] = event

Times(req, event) == Cardinality({i \in DOMAIN req.trace : req.trace[i] = event})

\* every occurrence of `later` in the trace has an occurrence of `earlier`
\* before it
Precedes(req, earlier, later) ==
    \A j \in DOMAIN req.trace :
        req.trace[j] = later => \E i \in 1..(j - 1) : req.trace[i] = earlier

\* C16: no request gets two responses, and every request that arrived at
\* submitClose eventually has its one response.
C16_EveryRequestAnswered ==
    /\ [](\A r \in Reqs : Len(Responses(requests[r])) <= 1)
    /\ \A r \in Reqs :
          (requests[r].pc # "idle") ~> (Len(Responses(requests[r])) = 1)

\* a close message whose callback threw: the handler is over and no response
\* was sent
C16_Witness ==
    /\ requests[1].handler = "submitClose" /\ requests[1].pc = "done"
    /\ requests[1].body = "close"
    /\ Occurs(requests[1], "callback threw")
    /\ Responses(requests[1]) = <<>>

\* what holds of the responses of submitClose: at most one per request, and
\* exactly one when the handler is over on another path than the catch block
AnsweredUnlessCallbackThrew ==
    \A r \in Reqs :
        /\ Len(Responses(requests[r])) <= 1
        /\ (requests[r].pc = "done" /\ ~Occurs(requests[r], "callback threw"))
              => Len(Responses(requests[r])) = 1

\* C17: the callback is invoked at most once per request, and only for a body
\* that parsed to a close message; nothing follows a 400, so no callback does;
\* 202 is sent only with no callback configured or after the callback
\* returned.
C17_CallbackOrdering ==
    \A r \in Reqs :
        LET req == requests[r] IN
        /\ Times(req, "callback") <= 1
        /\ Occurs(req, "callback")
              => /\ req.body = "close"
                 /\ Precedes(req, "Message.parse", "callback")
        /\ \A i \in DOMAIN req.trace : req.trace[i] = "400" => i = Len(req.trace)
        /\ Occurs(req, "400") => ~Occurs(req, "callback")
        /\ Occurs(req, "202")
              => \/ ~options.submitClose.callback /\ ~Occurs(req, "callback")
                 \/ /\ Precedes(req, "callback returned", "202")
                    /\ ~Occurs(req, "callback threw")

C17_Witness ==
    /\ requests[1].trace = <<"Message.parse", "callback", "callback returned", "202">>
    /\ requests[2].trace = <<"Message.parse", "400">>
    /\ requests[2].body = "rfq"

----------------------------------------------------------------------------
(* Properties of SpecExchanges *)

\* the header has a 'Bearer ' and something that is no 'Bearer ' right after
\* the first of them
HasBearerToken(h) ==
    /\ h # Undefined
    /\ \E i \in 1..(Len(h) - 1) :
          /\ h[i] = SymBearer /\ h[i + 1] # SymBearer
          /\ \A j \in 1..(i - 1) : h[j] # SymBearer

\* the text between the first 'Bearer ' and the next one, or the end
BearerToken(h) ==
    LET i == CHOOSE i \in 1..Len(h) :
                 h[i] = SymBearer /\ \A j \in 1..(i - 1) : h[j] # SymBearer
        j == CHOOSE j \in (i + 1)..(Len(h) + 1) :
                 /\ j = Len(h) + 1 \/ h[j] = SymBearer
                 /\ \A k \in (i + 1)..(j - 1) : h[k] # SymBearer
    IN  SubSeq(h, i + 1, j - 1)

Guarded == {"exchangesApi.getExchanges", "callback", "200"}

\* C18: exchangesApi is queried, the callback invoked and 200 sent only for a
\* request whose Authorization header has a non-empty Bearer token, after the
\* verification of that very token returned; a request with no header, with
\* no token after 'Bearer ', or whose token does not verify ends with the
\* single response 401, exchangesApi and the callback not called.
C18_AuthenticationGate ==
    \A r \in Reqs :
        LET req == requests[r] IN
        req.handler = "getExchanges"
        => /\ \A e \in Guarded :
                Occurs(req, e)
                => /\ HasBearerToken(req.authorization)
                   /\ req.requestToken = BearerToken(req.authorization)
                   /\ Precedes(req, "verify returned", e)
                   /\ Precedes(req, "TbdexHttpClient.verify", "verify returned")
                   /\ ~Occurs(req, "verify threw")
           /\ ~HasBearerToken(req.authorization)
                => ~Occurs(req, "TbdexHttpClient.verify")
           /\ (req.pc = "done"
                 /\ (Falsy(req.authorization) \/ ~HasBearerToken(req.authorization)
                        \/ Occurs(req, "verify threw")))
                => /\ Responses(req) = <<"401">>
                   /\ \A e \in Guarded : ~Occurs(req, e)

\* one request passed the gate and was answered 200 after the callback, while
\* another, whose token did not verify, was answered 401
C18_Witness ==
    /\ requests[1].authorization = <<SymBasic, SymBearer, SymTokenB>>
    /\ requests[1].requestToken = <<SymTokenB>>
    /\ Occurs(requests[1], "callback returned")
    /\ Responses(requests[1]) = <<"200">>
    /\ Occurs(requests[2], "verify threw")
    /\ Responses(requests[2]) = <<"401">>

====
